---- MODULE Spec2Model ----
(***************************************************************************)
(* Model of process_improve/multivariate.py: the PCA subclass of           *)
(* sklearn's PCA with its Hotelling's T2 / SPE limits and ellipse          *)
(* coordinates, and the MCUVScaler mean-centre / unit-variance scaler.     *)
(*                                                                         *)
(* Numbers.  float64 values are modelled as exact rationals <<n, d>> in    *)
(* lowest terms with d > 0; the IEEE specials that numpy and pandas        *)
(* produce instead of raising are <<0,0>> (NaN), <<1,0>> (+inf) and        *)
(* <<-1,0>> (-inf).  Rounding error is therefore not modelled.             *)
(*                                                                         *)
(* Containers.  A data matrix is a sequence of rows; it comes either as a  *)
(* pandas DataFrame or as a numpy ndarray, and the code behaves            *)
(* differently on the two (X.mean() is per column on a DataFrame and       *)
(* global on an ndarray; a Series has .median(), an ndarray has not).      *)
(* DataFrames always carry the same default column labels, so pandas'      *)
(* label alignment is position-wise.                                       *)
(***************************************************************************)
EXTENDS Integers, Sequences, FiniteSets, TLC

(***************************************************************************)
(* Bounds of the model.                                                    *)
(***************************************************************************)
\* largest number of columns of a generated data matrix
MaxK == 2
\* largest component count passed to the PCA constructor
MaxA == 3
\* largest amplitude of a generated column
MaxAmp == 2

(***************************************************************************)
(* Rational arithmetic with IEEE specials.                                 *)
(***************************************************************************)
Abs(x) == IF x < 0 THEN -x ELSE x

Sign(x) == IF x < 0 THEN -1 ELSE IF x > 0 THEN 1 ELSE 0

RECURSIVE Gcd(_, _)
Gcd(a, b) == IF b = 0 THEN a ELSE Gcd(b, a % b)

\* the float n/d, normalised; d = 0 gives NaN or a signed infinity
Rat(n, d) ==
    IF d = 0 THEN <<Sign(n), 0>>
    ELSE LET g == Gcd(Abs(n), Abs(d))
             s == Sign(d)
         IN  <<s * (n \div g), Abs(d) \div g>>

NaN == <<0, 0>>

R(i) == <<i, 1>>

IsFinite(a) == a[2] # 0

IsNaN(a) == a = NaN

RAdd(a, b) ==
    IF a[2] = 0 /\ b[2] = 0
    THEN (IF a = b THEN a ELSE NaN)
    ELSE Rat(a[1] * b[2] + b[1] * a[2], a[2] * b[2])

RNeg(a) == <<-a[1], a[2]>>

RSub(a, b) == RAdd(a, RNeg(b))

RMul(a, b) == Rat(a[1] * b[1], a[2] * b[2])

\* float division: x/0 is NaN or a signed infinity, never an exception
RDiv(a, b) ==
    IF b[2] = 0
    THEN (IF a[2] = 0 \/ b[1] = 0 THEN NaN ELSE R(0))
    ELSE IF b[1] = 0
         THEN <<Sign(a[1]), 0>>
         ELSE Rat(a[1] * b[2] * Sign(b[1]), a[2] * Abs(b[1]))

\* a < b on finite values
RLess(a, b) == a[1] * b[2] < b[1] * a[2]

RECURSIVE ISqrt(_, _)
ISqrt(n, r) == IF r * r >= n THEN r ELSE ISqrt(n, r + 1)

IsSquareInt(n) == n >= 0 /\ ISqrt(n, 0) * ISqrt(n, 0) = n

\* the rational is the square of a rational
IsSquare(a) == IsFinite(a) /\ IsSquareInt(a[1]) /\ IsSquareInt(a[2])

\* np.sqrt on the values whose root is rational
RSqrt(a) == <<ISqrt(a[1], 0), ISqrt(a[2], 0)>>

\* the sequence with every entry evaluated (an explicit tuple)
Tup(s) == s \o <<>>

RECURSIVE RSum(_)
RSum(s) == IF s = <<>> THEN R(0) ELSE RAdd(Head(s), RSum(Tail(s)))

\* mean of a non-empty vector of floats
Mean(s) == RDiv(RSum(s), R(Len(s)))

\* variance with the given delta degrees of freedom
Var(s, ddof) ==
    LET m == Mean(s)
        d == Tup([i \in 1..Len(s) |-> RMul(RSub(s[i], m), RSub(s[i], m))])
    IN  RDiv(RSum(d), R(Len(s) - ddof))

(***************************************************************************)
(* Matrices: sequences of rows of floats.                                  *)
(***************************************************************************)
NRows(X) == Len(X)

NCols(X) == Len(X[1])

Column(X, j) == Tup([i \in 1..Len(X) |-> X[i][j]])

\* all cells of the matrix, row after row
RECURSIVE Flatten(_)
Flatten(X) == IF X = <<>> THEN <<>> ELSE Head(X) \o Flatten(Tail(X))

\* an integer matrix as a matrix of floats
ToFloat(X) ==
    Tup([i \in 1..Len(X) |-> Tup([j \in 1..Len(X[i]) |-> R(X[i][j])])])

(***************************************************************************)
(* Input data.                                                             *)
(***************************************************************************)
Kinds == {"DataFrame", "ndarray"}

\* the matrix whose j-th column is cols[j]
FromColumns(cols) ==
    Tup([i \in 1..Len(cols[1]) |-> Tup([j \in 1..Len(cols) |-> cols[j][i]])])

\* sequences of exactly k elements of S
SeqsOfLen(S, k) == [1..k -> S]

\* The data of Wold, Esbensen and Geladi (1987)
pca_paper_by_wold_etal == <<<<3, 4, 2, 2>>, <<4, 3, 4, 3>>, <<5, 5, 6, 4>>>>

\* three-row columns 4 + a*p whose sample variance is a rational square
ScalerColumns ==
    { Tup([i \in 1..3 |-> 4 + a * p[i]]) :
        a \in 0..MaxAmp, p \in {<<-1, 0, 1>>, <<0, -1, 1>>} }

\* std-dev of every column (and of all cells, for an ndarray) is rational
ScalerInputOK(kind, X) ==
    IF kind = "DataFrame"
    THEN \A j \in 1..NCols(X) : IsSquare(Var(Column(ToFloat(X), j), 1))
    ELSE IsSquare(Var(Flatten(ToFloat(X)), 1))

ScalerMatrices ==
    {pca_paper_by_wold_etal} \cup
    UNION { { FromColumns(cols) : cols \in SeqsOfLen(ScalerColumns, k) } :
            k \in 1..MaxK }

\* the (kind, X) pairs MCUVScaler.fit is called with
ScalerInputs ==
    { in \in Kinds \X ScalerMatrices : ScalerInputOK(in[1], in[2]) }

\* one-row matrices handed to transform / inverse_transform
RowMatrices(k) == { <<Tup([j \in 1..k |-> c])>> : c \in {0, 5} }

(***************************************************************************)
(* State.                                                                  *)
(***************************************************************************)
VARIABLES
    n_components,              \* PCA: constructor argument
    tol,                       \* PCA: constructor argument (sklearn's tol)
    pca_fitted,                \* PCA: the attributes below exist
    N,                         \* PCA: number of fitted observations
    mean_,                     \* PCA: sklearn's per-column mean
    explained_variance_,       \* PCA: sklearn's per-component variance
    explained_variance_ratio_, \* PCA: sklearn's fraction of the variance
    components_,               \* PCA: sklearn's A x K loadings
    t_scores,                  \* PCA: N x A scores
    hotellings_T2,             \* PCA: per-observation T2
    squared_prediction_error,  \* PCA: [kind, v] per-observation SPE
    pca_X,                     \* history: the data of the last PCA fit
    sc_has_attrs,              \* MCUVScaler: center_x_ and scale_x_ exist
    center_x_,                 \* MCUVScaler: [shape, v]
    scale_x_,                  \* MCUVScaler: [shape, v]
    scaler_X,                  \* history: the data of the last scaler fit
    sc_fit_completed,          \* history: a scaler fit has returned
    ret                        \* outcome of the last call

pca_vars == <<n_components, tol, pca_fitted, N, mean_, explained_variance_,
              explained_variance_ratio_, components_, t_scores, hotellings_T2,
              squared_prediction_error, pca_X>>

scaler_vars == <<sc_has_attrs, center_x_, scale_x_, scaler_X, sc_fit_completed>>

vars == <<pca_vars, scaler_vars, ret>>

\* a call that returned a value
Ok(op, arg, value) ==
    [op |-> op, status |-> "ok", arg |-> arg, value |-> value]

\* a call that raised
Raised(op, arg, error) ==
    [op |-> op, status |-> error, arg |-> arg, value |-> <<>>]

(***************************************************************************)
(* MCUVScaler.                                                             *)
(***************************************************************************)
\* the column sums divided by N - 1 instead of N
X_mean_ddof1(kind, X) ==
    IF kind = "DataFrame"
    THEN [shape |-> "Series",
          v |-> Tup([j \in 1..NCols(X) |->
                    RDiv(RSum(Column(X, j)), R(NRows(X) - 1))])]
    ELSE [shape |-> "scalar", v |-> Mean(Flatten(X))]

\* X.mean(): per column on a DataFrame, over all cells on an ndarray
X_mean(kind, X) ==
    IF kind = "DataFrame"
    THEN [shape |-> "Series",
          v |-> Tup([j \in 1..NCols(X) |-> Mean(Column(X, j))])]
    ELSE [shape |-> "scalar", v |-> Mean(Flatten(X))]

\* the sample variance in place of the standard deviation
X_var_ddof1(kind, X) ==
    IF kind = "DataFrame"
    THEN [shape |-> "Series",
          v |-> Tup([j \in 1..NCols(X) |-> Var(Column(X, j), 1)])]
    ELSE [shape |-> "scalar", v |-> Var(Flatten(X), 1)]

\* X.std(ddof=1): per column on a DataFrame, over all cells on an ndarray
X_std(kind, X) ==
    IF kind = "DataFrame"
    THEN [shape |-> "Series",
          v |-> Tup([j \in 1..NCols(X) |-> RSqrt(Var(Column(X, j), 1))])]
    ELSE [shape |-> "scalar", v |-> RSqrt(Var(Flatten(X), 1))]

\* the scales left as computed
ZeroScaleKept(s) == s

\* scale_x_[scale_x_ == 0] = 1.0 on a Series
ZeroScaleToOne(s) ==
    [shape |-> "Series",
     v |-> Tup([j \in 1..Len(s.v) |->
                  IF s.v[j] = R(0) THEN R(1) ELSE s.v[j]])]

\* the body of MCUVScaler.fit: the attributes it leaves and how it ends;
\* on an ndarray X.std() is a numpy float, whose item assignment raises
\* after both attributes have been written
MCUVScaler_fit(kind, X) ==
    [kind |-> kind, X |-> X,
     center_x_ |-> X_mean(kind, X),
     scale_x_ |-> IF kind = "DataFrame"
                  THEN ZeroScaleToOne(X_std(kind, X))
                  ELSE X_std(kind, X),
     status |-> IF kind = "DataFrame" THEN "ok" ELSE "TypeError"]

\* MCUVScaler.fit on every input of the model
ScalerFits == { MCUVScaler_fit(in[1], ToFloat(in[2])) : in \in ScalerInputs }

\* (X - center) / scale, cell by cell
ScalerForward(c, s, X) ==
    Tup([i \in 1..NRows(X) |-> Tup([j \in 1..NCols(X) |->
        IF c.shape = "Series"
        THEN RDiv(RSub(X[i][j], c.v[j]), s.v[j])
        ELSE RDiv(RSub(X[i][j], c.v), s.v)])])

\* (X + center) * scale, cell by cell
ScalerInverseCenterFirst(c, s, X) ==
    Tup([i \in 1..NRows(X) |-> Tup([j \in 1..NCols(X) |->
        IF c.shape = "Series"
        THEN RMul(RAdd(X[i][j], c.v[j]), s.v[j])
        ELSE RMul(RAdd(X[i][j], c.v), s.v)])])

\* X * scale + center, cell by cell
ScalerInverse(c, s, X) ==
    Tup([i \in 1..NRows(X) |-> Tup([j \in 1..NCols(X) |->
        IF c.shape = "Series"
        THEN RAdd(RMul(X[i][j], s.v[j]), c.v[j])
        ELSE RAdd(RMul(X[i][j], s.v), c.v)])])

\* MCUVScaler.fit(X)
ScalerFit ==
    \E f \in ScalerFits :
        /\ center_x_' = f.center_x_
        /\ scale_x_' = f.scale_x_
        /\ sc_has_attrs' = TRUE
        /\ scaler_X' = f.X
        /\ sc_fit_completed' = (sc_fit_completed \/ f.status = "ok")
        /\ ret' = [op |-> "scaler.fit", status |-> f.status,
                   arg |-> [kind |-> f.kind, X |-> f.X], value |-> <<>>]
        /\ UNCHANGED pca_vars

\* the matrices a fitted scaler is applied to: as wide as the fitted data
ScalerArgs ==
    IF center_x_.shape = "Series"
    THEN { ToFloat(M) : M \in RowMatrices(Len(center_x_.v)) }
    ELSE { ToFloat(M) : M \in RowMatrices(1) }

\* MCUVScaler.transform(X)
ScalerTransform ==
    /\ IF ~sc_has_attrs
       THEN ret' = Raised("scaler.transform", <<>>, "NotFittedError")
       ELSE \E M \in ScalerArgs :
               ret' = Ok("scaler.transform", M,
                         ScalerForward(center_x_, scale_x_, M))
    /\ UNCHANGED <<pca_vars, scaler_vars>>

\* MCUVScaler.inverse_transform(X)
ScalerInverseTransform ==
    /\ IF ~sc_has_attrs
       THEN ret' = Raised("scaler.inverse_transform", <<>>, "NotFittedError")
       ELSE \E M \in ScalerArgs :
               ret' = Ok("scaler.inverse_transform", M,
                         ScalerInverse(center_x_, scale_x_, M))
    /\ UNCHANGED <<pca_vars, scaler_vars>>

\* fit(X).transform(X) for every input of the model on which fit returns
ScalerFitTransforms ==
    { [fit |-> f, value |-> ScalerForward(f.center_x_, f.scale_x_, f.X)] :
        f \in { g \in ScalerFits : g.status = "ok" } }

\* TransformerMixin.fit_transform(X) is fit(X).transform(X)
ScalerFitTransform ==
    \E ft \in ScalerFitTransforms :
        /\ center_x_' = ft.fit.center_x_
        /\ scale_x_' = ft.fit.scale_x_
        /\ sc_has_attrs' = TRUE
        /\ scaler_X' = ft.fit.X
        /\ sc_fit_completed' = TRUE
        /\ ret' = Ok("scaler.fit_transform",
                     [kind |-> ft.fit.kind, X |-> ft.fit.X], ft.value)
        /\ UNCHANGED pca_vars

(***************************************************************************)
(* PCA: input data.  sklearn's SVD is modelled exactly on matrices whose   *)
(* centred columns are mutually orthogonal and whose non-constant columns  *)
(* have pairwise distinct variances: the principal axes of such a matrix   *)
(* are the coordinate axes, taken by decreasing column variance.  The      *)
(* directions the SVD returns for zero variance are arbitrary; the model   *)
(* lets them be the remaining axes in any order, with positive sign.       *)
(***************************************************************************)
RowCounts == {2, 3, 7, 8}

\* the j-th zero-sum pattern of n rows; distinct patterns are orthogonal
PCAPattern(n, j) ==
    LET base == IF n >= 4
                THEN <<<<1, 1, -1, -1>>, <<1, -1, 1, -1>>, <<1, -1, -1, 1>>>>
                ELSE IF n = 3
                     THEN <<<<1, 0, -1>>, <<1, -2, 1>>>>
                     ELSE <<<<1, -1>>>>
    IN  Tup([i \in 1..n |-> IF j <= Len(base) /\ i <= Len(base[j])
                            THEN base[j][i] ELSE 0])

Dot(u, v) == RSum(Tup([i \in 1..Len(u) |-> RMul(u[i], v[i])]))

SumSq(v) == Dot(v, v)

\* sklearn's mean_: np.mean(X, axis=0)
ColumnMeans(X) == Tup([j \in 1..NCols(X) |-> Mean(Column(X, j))])

\* X minus its column means (sklearn centres the data itself)
CentreColumns(X) ==
    LET m == ColumnMeans(X)
    IN  Tup([i \in 1..NRows(X) |-> Tup([j \in 1..NCols(X) |->
                RSub(X[i][j], m[j])])])

\* centred columns orthogonal, no two non-constant columns of equal variance
PCAInputOK(X) ==
    LET Xc == CentreColumns(X)
        c == Tup([j \in 1..NCols(X) |-> Column(Xc, j)])
    IN  \A j, k \in 1..NCols(X) :
            j # k => /\ Dot(c[j], c[k]) = R(0)
                     /\ SumSq(c[j]) = SumSq(c[k]) => SumSq(c[j]) = R(0)

\* the (N, K) of the generated matrices; seven rows, the largest N below
\* the switch of SPE_limit, come with a single column only
PCAShapesGenerated ==
    { sh \in RowCounts \X (1..MaxK) : sh[1] = 7 => sh[2] = 1 }

\* the column means of the generated matrices: the matrices of three rows
\* come centred and off centre, the others centred
PCAOffsets(n) == IF n = 3 THEN {0, 1} ELSE {0}

\* matrices with columns m + a[j] * pattern j
PCAMatrices ==
    UNION { { ToFloat(FromColumns(
                [j \in 1..sh[2] |-> Tup([i \in 1..sh[1] |->
                    m + amp[j] * PCAPattern(sh[1], j)[i]])])) :
              m \in PCAOffsets(sh[1]), amp \in SeqsOfLen(0..MaxAmp, sh[2]) } :
            sh \in PCAShapesGenerated }

\* the matrices PCA.fit is called with
PCAInputs == { X \in PCAMatrices : PCAInputOK(X) }

\* the tol passed to the constructor: sklearn's default 0.0, or 1e-3
Tolerances == {R(0), <<1, 1000>>}

\* the constructor calls: PCA(n_components=A) and PCA(n_components=1, tol=t)
Constructions == ((1..MaxA) \X {R(0)}) \cup ({1} \X Tolerances)

\* confidence levels passed to the limits, valid and invalid
ConfLevels == {R(0), <<19, 20>>, R(1)}

(***************************************************************************)
(* PCA.fit                                                                 *)
(***************************************************************************)
Min(a, b) == IF a < b THEN a ELSE b

\* the check against the number of observations only
sklearn_n_components_ok_rows_only(A, n, k) == 0 <= A /\ A <= n

\* sklearn's check of n_components (full SVD solver): 0 <= A <= min(N, K)
sklearn_n_components_ok(A, n, k) == 0 <= A /\ A <= Min(n, k)

\* the axes by increasing variance
AxisOrdersIncreasing(Xc) ==
    LET ss == Tup([j \in 1..NCols(Xc) |-> SumSq(Column(Xc, j))])
    IN  { perm \in Permutations(1..NCols(Xc)) :
            \A a, b \in 1..NCols(Xc) :
                a < b => ~RLess(ss[perm[b]], ss[perm[a]]) }

\* the orders in which the SVD returns the axes: by decreasing variance
AxisOrders(Xc) ==
    LET ss == Tup([j \in 1..NCols(Xc) |-> SumSq(Column(Xc, j))])
    IN  { perm \in Permutations(1..NCols(Xc)) :
            \A a, b \in 1..NCols(Xc) :
                a < b => ~RLess(ss[perm[a]], ss[perm[b]]) }

RAbs(a) == <<Abs(a[1]), a[2]>>

\* svd_flip: the entry of largest magnitude of a score column is positive
svd_flip_signs(col) ==
    IF SumSq(col) = R(0) THEN {1}
    ELSE LET i == CHOOSE i \in 1..Len(col) :
                      /\ \A k \in 1..Len(col) : ~RLess(RAbs(col[i]), RAbs(col[k]))
                      /\ \A k \in 1..(i - 1) : RLess(RAbs(col[k]), RAbs(col[i]))
         IN  {Sign(col[i][1])}

\* the axes scaled by their sign twice over: loadings not of unit length
sklearn_components_not_normalised(A, k, perm, sgn) ==
    Tup([a \in 1..A |-> Tup([j \in 1..k |->
        IF j = perm[a] THEN R(2 * sgn[a]) ELSE R(0)])])

\* sklearn's components_: the first A axes, each with the sign of svd_flip
sklearn_components(A, k, perm, sgn) ==
    Tup([a \in 1..A |-> Tup([j \in 1..k |->
        IF j = perm[a] THEN R(sgn[a]) ELSE R(0)])])

\* sklearn's explained_variance_: squared singular values over N - 1
sklearn_explained_variance(A, Xc, perm) ==
    Tup([a \in 1..A |-> RDiv(SumSq(Column(Xc, perm[a])), R(NRows(Xc) - 1))])

\* sklearn's explained_variance_ratio_: explained_variance_ over the total
\* variance of the data (the sum over all singular values); 0/0 is NaN
sklearn_explained_variance_ratio(ev, Xc) ==
    LET total_var == RDiv(SumSq(Flatten(Xc)), R(NRows(Xc) - 1))
    IN  Tup([a \in 1..Len(ev) |-> RDiv(ev[a], total_var)])

\* sklearn's fit_transform: the centred data projected on the components
sklearn_fit_transform(Xc, comps) ==
    Tup([i \in 1..NRows(Xc) |-> Tup([a \in 1..Len(comps) |->
        Dot(Xc[i], comps[a])])])

\* T @ P for an n x A matrix T and an A x k matrix P
MatMul(T, P, k) ==
    Tup([i \in 1..Len(T) |-> Tup([j \in 1..k |->
        RSum(Tup([a \in 1..Len(P) |-> RMul(T[i][a], P[a][j])]))])])

\* np.sum((t_scores / scaling_factor_for_scores) ** 2, axis=1), where
\* scaling_factor_for_scores = sqrt(explained_variance_): (t/sqrt(v))^2 = t^2/v
HotellingsT2(T, ev) ==
    Tup([i \in 1..Len(T) |->
        RSum(Tup([a \in 1..Len(ev) |->
            RDiv(RMul(T[i][a], T[i][a]), ev[a])]))])

\* np.sum((X - t_scores @ components_) ** 2, axis=1)
SquaredPredictionError(X, T, comps) ==
    LET TP == MatMul(T, comps, NCols(X))
        error_X == Tup([i \in 1..NRows(X) |-> Tup([j \in 1..NCols(X) |->
                        RSub(X[i][j], TP[i][j])])])
    IN  Tup([i \in 1..NRows(X) |-> SumSq(error_X[i])])

\* the attributes a successful PCA(n_components=A).fit(X) leaves; the SVD
\* has min(N, K) singular vectors, of which sklearn keeps the first A
PCA_fit(A0, X) ==
    LET Xc == CentreColumns(X)
        A == Min(A0, Min(NRows(X), NCols(X)))
    IN
    UNION { { LET comps == sklearn_components(A, NCols(X), perm, sgn)
                  ev == sklearn_explained_variance(A, Xc, perm)
                  T == sklearn_fit_transform(Xc, comps)
              IN  [A |-> A0, X |-> X, N |-> NRows(X),
                   mean_ |-> ColumnMeans(X),
                   explained_variance_ |-> ev,
                   explained_variance_ratio_ |->
                       sklearn_explained_variance_ratio(ev, Xc),
                   components_ |-> comps,
                   t_scores |-> T,
                   hotellings_T2 |-> HotellingsT2(T, ev),
                   squared_prediction_error |->
                       SquaredPredictionError(X, T, comps)] :
              sgn \in { s \in [1..A -> {-1, 1}] :
                          \A a \in 1..A :
                              s[a] \in svd_flip_signs(Column(Xc, perm[a])) } } :
            perm \in AxisOrders(Xc) }

\* PCA.fit on every input of the model that sklearn accepts
PCAFits ==
    UNION { PCA_fit(ax[1], ax[2]) :
            ax \in { ax \in (1..MaxA) \X PCAInputs :
                       sklearn_n_components_ok(ax[1], NRows(ax[2]),
                                               NCols(ax[2])) } }

\* the outcomes of PCA(n_components=A).fit, for every A
PCAFitsOf == [A \in 1..MaxA |-> { f \in PCAFits : f.A = A }]

\* the (N, K) of the inputs
PCAShapes == { <<NRows(X), NCols(X)>> : X \in PCAInputs }

\* PCA.fit(X): super().fit(X) raises before anything is assigned
PCAFitRejected ==
    \E kind \in Kinds, sh \in PCAShapes :
        /\ ~sklearn_n_components_ok(n_components, sh[1], sh[2])
        /\ ret' = Raised("pca.fit",
                         [kind |-> kind, shape |-> sh, refit |-> pca_fitted],
                         "ValueError")
        /\ UNCHANGED <<pca_vars, scaler_vars>>

\* PCA.fit(X) with self.N assigned only on the first fit
PCAFitKeepingFirstN ==
    \E kind \in Kinds, f \in PCAFitsOf[n_components] :
        /\ pca_fitted' = TRUE
        /\ N' = IF pca_fitted THEN N ELSE f.N
        /\ mean_' = f.mean_
        /\ explained_variance_' = f.explained_variance_
        /\ explained_variance_ratio_' = f.explained_variance_ratio_
        /\ pca_X' = f.X
        /\ components_' = f.components_
        /\ t_scores' = f.t_scores
        /\ hotellings_T2' = f.hotellings_T2
        /\ squared_prediction_error' =
               [kind |-> IF kind = "DataFrame" THEN "Series" ELSE "ndarray",
                v |-> f.squared_prediction_error]
        /\ ret' = Ok("pca.fit",
                     [kind |-> kind, shape |-> <<f.N, NCols(f.X)>>,
                      refit |-> pca_fitted], <<>>)
        /\ UNCHANGED <<n_components, tol, scaler_vars>>

\* PCA.fit(X): every attribute is assigned from the one decomposition; the
\* outcome records whether the instance had been fitted before the call
PCAFitAccepted ==
    \E kind \in Kinds, f \in PCAFitsOf[n_components] :
        /\ pca_fitted' = TRUE
        /\ N' = f.N
        /\ mean_' = f.mean_
        /\ explained_variance_' = f.explained_variance_
        /\ explained_variance_ratio_' = f.explained_variance_ratio_
        /\ pca_X' = f.X
        /\ components_' = f.components_
        /\ t_scores' = f.t_scores
        /\ hotellings_T2' = f.hotellings_T2
        /\ squared_prediction_error' =
               [kind |-> IF kind = "DataFrame" THEN "Series" ELSE "ndarray",
                v |-> f.squared_prediction_error]
        /\ ret' = Ok("pca.fit",
                     [kind |-> kind, shape |-> <<f.N, NCols(f.X)>>,
                      refit |-> pca_fitted], <<>>)
        /\ UNCHANGED <<n_components, tol, scaler_vars>>

\* PCA.fit(X)
PCAFit == PCAFitRejected \/ PCAFitAccepted

(***************************************************************************)
(* Limits.  scipy's quantile functions are opaque: a call is recorded by   *)
(* its function and arguments; "degenerate" marks degrees of freedom that  *)
(* are not finite positive numbers, for which scipy has no quantile.       *)
(***************************************************************************)
\* scipy.stats.f.isf(q, dfn, dfd)
f_isf(q, dfn, dfd) ==
    [fn |-> "f.isf", p |-> q, df |-> <<R(dfn), R(dfd)>>,
     degenerate |-> dfn <= 0 \/ dfd <= 0]

\* scipy.stats.chi2.ppf(p, df)
chi2_ppf(p, df) ==
    [fn |-> "chi2.ppf", p |-> p, df |-> <<df>>,
     degenerate |-> ~IsFinite(df) \/ df[1] <= 0]

\* the float factor * quantile
Times(factor, quantile) == [factor |-> factor, quantile |-> quantile]

\* the checks of conf_level: assert conf_level > 0.0; assert conf_level < 1.0
ConfLevelOK(conf_level) == RLess(R(0), conf_level) /\ RLess(conf_level, R(1))

\* the factor with N - 1 squared in place of (N - 1) * (N + 1)
T2FactorSquaredNMinus1(A, n) == Rat(A * (n - 1) * (n - 1), n * (n - A))

\* A * (N - 1) * (N + 1) / (N * (N - A))
T2Factor(A, n) == Rat(A * (n - 1) * (n + 1), n * (n - A))

\* PCA.T2_limit(conf_level) on a model with the given attributes
T2_limit(fitted, A, A_type, n, conf_level) ==
    IF ~ConfLevelOK(conf_level)
    THEN Raised("T2_limit", conf_level, "AssertionError")
    ELSE IF ~fitted
    THEN \* self.N does not exist
         Raised("T2_limit", conf_level, "AttributeError")
    ELSE IF n * (n - A) = 0 /\ A_type = "int"
    THEN \* int / int with a zero divisor
         Raised("T2_limit", conf_level, "ZeroDivisionError")
    ELSE \* with a numpy integer and N = A the factor is inf (a warning, no
         \* exception) and f.isf has no value: the product is NaN
         Ok("T2_limit", conf_level,
            Times(T2Factor(A, n), f_isf(RSub(R(1), conf_level), A, n - A)))

\* the vector without its i-th entry
Without(s, i) ==
    Tup([k \in 1..(Len(s) - 1) |-> IF k < i THEN s[k] ELSE s[k + 1]])

\* the finite floats of s in increasing order
RECURSIVE SortR(_)
SortR(s) ==
    IF s = <<>> THEN <<>>
    ELSE LET i == CHOOSE i \in 1..Len(s) :
                      \A k \in 1..Len(s) : ~RLess(s[k], s[i])
         IN  <<s[i]>> \o SortR(Without(s, i))

\* Series.median()
Median(s) ==
    LET t == SortR(s)
        n == Len(s)
    IN  IF n % 2 = 1
        THEN t[(n + 1) \div 2]
        ELSE RDiv(RAdd(t[n \div 2], t[n \div 2 + 1]), R(2))

\* the centre of the SPE values: median above seven observations, else mean
CenterSPE(n, v) == IF n > 7 THEN Median(v) ELSE Mean(v)

\* .var(): ddof = 1 on a pandas Series, ddof = 0 on a numpy array
VarianceSPE(spe) == Var(spe.v, IF spe.kind = "Series" THEN 1 ELSE 0)

\* PCA.SPE_limit(conf_level) on a model with the given attributes
SPE_limit(fitted, n, spe, conf_level) ==
    IF ~fitted
    THEN Raised("SPE_limit", conf_level, "NotFittedError")
    ELSE IF ~ConfLevelOK(conf_level)
    THEN Raised("SPE_limit", conf_level, "AssertionError")
    ELSE IF n > 7 /\ spe.kind = "ndarray"
    THEN \* numpy arrays have no median method
         Raised("SPE_limit", conf_level, "AttributeError")
    ELSE LET center_spe == CenterSPE(n, spe.v)
             variance_spe == VarianceSPE(spe)
             g == RDiv(variance_spe, RMul(R(2), center_spe))
             h == RDiv(RMul(R(2), RMul(center_spe, center_spe)), variance_spe)
         IN  Ok("SPE_limit", conf_level, Times(g, chi2_ppf(conf_level, h)))

\* pca.ellipse_coordinates(*args): the function is declared without self,
\* so the instance is bound to score_h and the arguments shift by one; the
\* body reads the names s_h and s_v, which are not defined anywhere
ellipse_coordinates(args) ==
    IF 1 + Len(args) > 4 \/ 1 + Len(args) < 3
    THEN Raised("ellipse_coordinates", args, "TypeError")
    ELSE Raised("ellipse_coordinates", args, "NameError")

\* the argument lists (s_h, s_v, T2_limit_alpha[, n_points]) of a call
EllipseArgs ==
    { <<R(1), R(2), <<19, 20>>>>, <<R(1), R(2), <<19, 20>>, R(100)>> }

\* the integer passed to the constructor is a Python int or a numpy integer;
\* the model does not record which, every call sees either
IntegerTypes == {"int", "numpy.int64"}

\* PCA.T2_limit(conf_level)
PCAT2Limit ==
    /\ \E c \in ConfLevels, A_type \in IntegerTypes :
          ret' = T2_limit(pca_fitted, n_components, A_type, N, c)
    /\ UNCHANGED <<pca_vars, scaler_vars>>

\* SPE_limit with the SPE values sorted in place for the median
PCASPELimitSortingInPlace ==
    /\ \E c \in ConfLevels :
          ret' = SPE_limit(pca_fitted, N, squared_prediction_error, c)
    /\ squared_prediction_error' =
           [squared_prediction_error EXCEPT !.v = SortR(@)]
    /\ UNCHANGED <<n_components, tol, pca_fitted, N, mean_,
                   explained_variance_, explained_variance_ratio_,
                   components_, t_scores, hotellings_T2, pca_X, scaler_vars>>

\* PCA.SPE_limit(conf_level)
PCASPELimit ==
    /\ \E c \in ConfLevels :
          ret' = SPE_limit(pca_fitted, N, squared_prediction_error, c)
    /\ UNCHANGED <<pca_vars, scaler_vars>>

\* pca.ellipse_coordinates(...)
PCAEllipseCoordinates ==
    /\ \E args \in EllipseArgs : ret' = ellipse_coordinates(args)
    /\ UNCHANGED <<pca_vars, scaler_vars>>

\* the rows handed to PCA.transform: as wide as the fitted data
PCATransformArgs == { ToFloat(M) : M \in RowMatrices(Len(mean_)) }

\* sklearn's transform, which PCA inherits: (X - mean_) @ components_.T
sklearn_transform(m, comps, X) ==
    Tup([i \in 1..NRows(X) |-> Tup([a \in 1..Len(comps) |->
        Dot(Tup([j \in 1..NCols(X) |-> RSub(X[i][j], m[j])]), comps[a])])])

\* PCA.transform(X)
PCATransform ==
    /\ IF ~pca_fitted
       THEN ret' = Raised("pca.transform", <<>>, "NotFittedError")
       ELSE \E M \in PCATransformArgs :
               ret' = Ok("pca.transform", M,
                         sklearn_transform(mean_, components_, M))
    /\ UNCHANGED <<pca_vars, scaler_vars>>

Init ==
    /\ \E c \in Constructions : n_components = c[1] /\ tol = c[2]
    /\ pca_fitted = FALSE
    /\ N = 0
    /\ mean_ = <<>>
    /\ explained_variance_ = <<>>
    /\ explained_variance_ratio_ = <<>>
    /\ pca_X = <<>>
    /\ components_ = <<>>
    /\ t_scores = <<>>
    /\ hotellings_T2 = <<>>
    /\ squared_prediction_error = [kind |-> "none", v |-> <<>>]
    /\ sc_has_attrs = FALSE
    /\ center_x_ = [shape |-> "none", v |-> <<>>]
    /\ scale_x_ = [shape |-> "none", v |-> <<>>]
    /\ scaler_X = <<>>
    /\ sc_fit_completed = FALSE
    /\ ret = Ok("init", <<>>, <<>>)

NextPCA ==
    \/ PCAFit
    \/ PCAT2Limit
    \/ PCASPELimit
    \/ PCAEllipseCoordinates
    \/ PCATransform

NextScaler ==
    \/ ScalerFit
    \/ ScalerFitTransform
    \/ ScalerTransform
    \/ ScalerInverseTransform

Next == NextPCA \/ NextScaler

\* the PCA model alone
SpecPCA == Init /\ [][NextPCA]_vars

\* the scaler alone, next to a PCA object that is never used
InitScaler == Init /\ n_components = 1 /\ tol = R(0)

SpecScaler == InitScaler /\ [][NextScaler]_vars

Spec == Init /\ [][Next]_vars

(***************************************************************************)
(* Properties.                                                             *)
(***************************************************************************)
\* C1: on a fitted model with N > A and 0 < conf_level < 1, T2_limit returns
\* A(N-1)(N+1) / (N(N-A)) times the inverse survival function of the
\* F-distribution with (A, N-A) degrees of freedom at 1 - conf_level.
C1_T2LimitFormula ==
    (ret.op = "T2_limit" /\ pca_fitted /\ N > n_components
        /\ ConfLevelOK(ret.arg))
    => /\ ret.status = "ok"
       /\ IsFinite(ret.value.factor)
       /\ ret.value.factor[1] * N * (N - n_components)
              = ret.value.factor[2] * n_components * (N - 1) * (N + 1)
       /\ ret.value.quantile.fn = "f.isf"
       /\ RAdd(ret.value.quantile.p, ret.arg) = R(1)
       /\ ret.value.quantile.df = <<R(n_components), R(N - n_components)>>
       /\ ~ret.value.quantile.degenerate

\* T2_limit(0.95) has returned on a 2-component model of 8 observations
C1_Witness ==
    /\ ret.op = "T2_limit" /\ ret.status = "ok" /\ ret.arg = <<19, 20>>
    /\ pca_fitted /\ N = 8 /\ n_components = 2
    /\ ret.value.factor = <<21, 8>>

\* the errors that report a misuse by the caller
SpecificationErrors == {"ValueError", "TypeError"}

\* C2: T2_limit on a model with N <= A fails with a specification error and
\* returns no value.
C2_T2LimitFailsWhenNNotAboveA ==
    (ret.op = "T2_limit" /\ pca_fitted /\ N <= n_components
        /\ ConfLevelOK(ret.arg))
    => ret.status \in SpecificationErrors

\* the number of entries of s that are smaller / not larger than x
CountLess(s, x) == Cardinality({i \in 1..Len(s) : RLess(s[i], x)})

CountLeq(s, x) == Cardinality({i \in 1..Len(s) : ~RLess(x, s[i])})

\* x is the k-th smallest entry of s
IsOrderStatistic(s, k, x) ==
    /\ \E i \in 1..Len(s) : s[i] = x
    /\ CountLess(s, x) < k
    /\ k <= CountLeq(s, x)

\* c is the median of s
IsMedian(s, c) ==
    LET n == Len(s) IN
    IF n % 2 = 1
    THEN IsOrderStatistic(s, (n + 1) \div 2, c)
    ELSE \E i, j \in 1..n :
            /\ IsOrderStatistic(s, n \div 2, s[i])
            /\ IsOrderStatistic(s, n \div 2 + 1, s[j])
            /\ c = RDiv(RAdd(s[i], s[j]), R(2))

\* C3: on a fitted model and 0 < conf_level < 1, SPE_limit returns
\* g * chi2.ppf(conf_level, h) with g = var(s) / (2c), h = 2c^2 / var(s), c the
\* median of the SPE values s when N > 7 and their mean when N <= 7.
C3_SPELimitFormula ==
    (ret.op = "SPE_limit" /\ pca_fitted /\ ConfLevelOK(ret.arg))
    => /\ ret.status = "ok"
       /\ LET s == squared_prediction_error.v IN
          \E c \in {Mean(s), Median(s)}, ddof \in {0, 1} :
              /\ IF N > 7 THEN IsMedian(s, c) ELSE c = Mean(s)
              /\ ret.value.factor = RDiv(Var(s, ddof), RMul(R(2), c))
              /\ ret.value.quantile.fn = "chi2.ppf"
              /\ ret.value.quantile.p = ret.arg
              /\ ret.value.quantile.df
                     = <<RDiv(RMul(R(2), RMul(c, c)), Var(s, ddof))>>

\* the n_points of a call: the fourth argument, 100 by default
NPointsOf(args) == IF Len(args) >= 4 THEN args[4][1] ELSE 100

\* C4: model.ellipse_coordinates(s_h, s_v, T2_limit, n_points) returns two
\* sequences of n_points entries, the first and last point of which are
\* (sqrt(T2_limit) * s_h, 0).
C4_EllipseCoordinatesReturnsPoints ==
    (ret.op = "ellipse_coordinates" /\ pca_fitted /\ Len(ret.arg) \in {3, 4})
    => /\ ret.status = "ok"
       /\ Len(ret.value.x) = NPointsOf(ret.arg)
       /\ Len(ret.value.y) = NPointsOf(ret.arg)
       /\ ret.value.x[1] = ret.value.x[NPointsOf(ret.arg)]
       /\ RMul(ret.value.x[1], ret.value.x[1])
              = RMul(ret.arg[3], RMul(ret.arg[1], ret.arg[1]))
       /\ ret.value.y[1] = R(0)
       /\ ret.value.y[NPointsOf(ret.arg)] = R(0)

\* a fit of the scaler has completed: only then are the attributes Series
ScalerFitted == sc_has_attrs /\ scale_x_.shape = "Series"

\* sum of the squared deviations of the vector from its mean
SumSqDev(col) ==
    LET n == Len(col)
        total == RSum(col)
    IN  RSum(Tup([i \in 1..n |->
            LET d == RSub(col[i], RDiv(total, R(n))) IN RMul(d, d)]))

IsConstant(col) == \A i \in 1..Len(col) : col[i] = col[1]

\* center[j] is the mean of column j of the fitted data
C5_CenterIsMean ==
    ScalerFitted =>
        \A j \in 1..NCols(scaler_X) :
            RMul(R(NRows(scaler_X)), center_x_.v[j])
                = RSum(Column(scaler_X, j))

\* transform(M)[i,j] = (M[i,j] - center[j]) / scale[j]
C5_TransformCells ==
    (ret.op = "scaler.transform" /\ ScalerFitted)
    => /\ ret.status = "ok"
       /\ \A i \in 1..NRows(ret.arg), j \in 1..NCols(ret.arg) :
             /\ IsFinite(ret.value[i][j])
             /\ RMul(ret.value[i][j], scale_x_.v[j])
                    = RSub(ret.arg[i][j], center_x_.v[j])

\* fit_transform(X) has mean 0 in every column and sample standard
\* deviation 1 in every column of X that is not constant
C5_FitTransformStandardised ==
    ret.op = "scaler.fit_transform"
    => \A j \in 1..NCols(scaler_X) :
          /\ RSum(Column(ret.value, j)) = R(0)
          /\ ~IsConstant(Column(scaler_X, j))
                => SumSqDev(Column(ret.value, j)) = R(NRows(scaler_X) - 1)

FittedToWold ==
    /\ ret.op \in {"scaler.fit", "scaler.fit_transform"}
    /\ ret.status = "ok"
    /\ scaler_X = ToFloat(pca_paper_by_wold_etal)

C10_FitClampsComponents ==
    (ret.op = "pca.fit"
        /\ n_components > Min(ret.arg.shape[1] - 1, ret.arg.shape[2]))
    => /\ ret.status = "ok"
       /\ Len(components_) = Min(ret.arg.shape[1] - 1, ret.arg.shape[2])

\* the tolerance lies inside (1e-16, 1.0); the tolerances of the model are
\* 0 and 1e-3, for which that is 0 < tol < 1
TolOK(t) == RLess(R(0), t) /\ RLess(t, R(1))

\* C11: a fit on an instance with an invalid component count or with a
\* tolerance outside (1e-16, 1.0) raises a specification error and leaves
\* every field of the model as it was before the call.
C11_SpecificationErrorsLeaveState ==
    [][(ret'.op = "pca.fit"
          /\ (\/ n_components > Min(ret'.arg.shape[1], ret'.arg.shape[2])
              \/ ~TolOK(tol)))
       => (ret'.status \in SpecificationErrors /\ UNCHANGED pca_vars)]_vars

\* the fields that fit leaves on the model
ModelState ==
    [N |-> N, components_ |-> components_, t_scores |-> t_scores,
     hotellings_T2 |-> hotellings_T2,
     squared_prediction_error |-> squared_prediction_error.v]

\* the same fields of the outcome f of a fit
ModelStateOf(f) ==
    [N |-> f.N, components_ |-> f.components_, t_scores |-> f.t_scores,
     hotellings_T2 |-> f.hotellings_T2,
     squared_prediction_error |-> f.squared_prediction_error]

\* C12: after a successful fit on an instance that was fitted before, N,
\* scores, components, T2 and SPE are those a fresh instance with the same
\* n_components has after fitting the data of this last call alone.
C12_SecondFitFromScratch ==
    (ret.op = "pca.fit" /\ ret.status = "ok" /\ ret.arg.refit)
    => \E f \in PCA_fit(n_components, pca_X) : ModelState = ModelStateOf(f)

\* a fitted instance has been fitted again, to data of two observations
C12_Witness ==
    /\ ret.op = "pca.fit" /\ ret.status = "ok" /\ ret.arg.refit
    /\ N = 2 /\ Len(t_scores) = 2

\* the calls that read a fitted model
ReadingCalls == {"pca.transform", "T2_limit", "SPE_limit", "ellipse_coordinates"}

\* C13: on a fitted model, a call of transform, T2_limit, SPE_limit or
\* ellipse_coordinates changes no field of the model, whatever it returns
\* or raises; no limit is kept on the model.
C13_ReadingCallsLeaveState ==
    [][(pca_fitted /\ ret'.op \in ReadingCalls) => UNCHANGED pca_vars]_vars

\* SPE_limit has returned on a model whose SPE values are not in order
C13_Witness ==
    /\ pca_fitted /\ ret.op = "SPE_limit" /\ ret.status = "ok"
    /\ squared_prediction_error.v = <<R(5), R(2), R(1)>>

\* the running sums of a vector of floats
CumSum(s) == Tup([a \in 1..Len(s) |-> RSum(SubSeq(s, 1, a))])

\* the cumulative R2 of the fitted model: the fraction of the variance of
\* the data that the first a components explain
R2cum == CumSum(explained_variance_ratio_)

\* C15: on every fitted model the cumulative R2 has one entry per requested
\* component, never decreases from one component to the next, and every
\* entry is a number in [0, 1].
C15_CumulativeR2 ==
    pca_fitted =>
        /\ Len(R2cum) = n_components
        /\ \A a \in 1..Len(R2cum) :
              /\ IsFinite(R2cum[a])
              /\ ~RLess(R2cum[a], R(0))
              /\ ~RLess(R(1), R2cum[a])
              /\ a > 1 => ~RLess(R2cum[a], R2cum[a - 1])

\* the K x A loadings matrix P: the transpose of components_
Loadings == Tup([j \in 1..Len(mean_) |-> Tup([a \in 1..Len(components_) |->
                components_[a][j]])])

\* entry (a, b) of M' M for a matrix M with A columns
Gram(M, a, b) == Dot(Column(M, a), Column(M, b))

VaryingColumns == { j \in 1..NCols(pca_X) : ~IsConstant(Column(pca_X, j)) }

\* the rank of the centred fitted data: its varying columns are mutually
\* orthogonal, so each of them adds one to the rank
RankOfData == Cardinality(VaryingColumns)

IsZeroVector(v) == \A i \in 1..Len(v) : v[i] = R(0)

\* C18: a fit that has returned without a report on data of rank R, with
\* A > R components requested, has either kept no more than R components or
\* given every component beyond the R-th a zero loading and a zero score;
\* and every constant column of the data has loading 0 in every component.
C18_RankExhaustion ==
    (ret.op = "pca.fit" /\ ret.status = "ok" /\ n_components > RankOfData)
    => /\ \/ Len(components_) <= RankOfData
          \/ \A a \in (RankOfData + 1)..Len(components_) :
                /\ IsZeroVector(components_[a])
                /\ IsZeroVector(Column(t_scores, a))
       /\ \A j \in 1..NCols(pca_X) :
             j \notin VaryingColumns
                => \A a \in 1..Len(components_) : components_[a][j] = R(0)

\* the calls of a PCA instance / of a scaler that need a fitted instance
PCANeedsFit == {"T2_limit", "SPE_limit"}

ScalerNeedsFit == {"scaler.transform", "scaler.inverse_transform"}

\* C19: T2_limit and SPE_limit, and transform and inverse_transform of the
\* scaler, return a value only on an instance on which a fit has completed
\* before; on any other instance they raise and change nothing.
C19_ValueOnlyAfterCompletedFit ==
    [][/\ (ret'.op \in PCANeedsFit /\ ~pca_fitted)
          => (ret'.status # "ok" /\ UNCHANGED pca_vars)
       /\ (ret'.op \in ScalerNeedsFit /\ ~sc_fit_completed)
          => (ret'.status # "ok" /\ UNCHANGED scaler_vars)]_vars

\* row i of the fitted data as the model reconstructs it from its
\* components: the column means plus the scores times the loadings
Reconstruction(i) ==
    Tup([j \in 1..NCols(pca_X) |->
        RAdd(mean_[j],
             RSum(Tup([a \in 1..Len(components_) |->
                 RMul(t_scores[i][a], components_[a][j])])))])

\* the squared norm of row i of the fitted data minus its reconstruction
SquaredResidual(i) ==
    LET rec == Reconstruction(i)
    IN  SumSq(Tup([j \in 1..NCols(pca_X) |-> RSub(pca_X[i][j], rec[j])]))

\* C20: after fit(X), squared_prediction_error has one entry per row of X,
\* entry i is the squared norm of row i minus its reconstruction from the
\* retained components, and it is 0 in every row when the components
\* retained are as many as the rank of the centred X, centred or not.
C20_SPEIsSquaredResidual ==
    (ret.op = "pca.fit" /\ ret.status = "ok")
    => /\ Len(squared_prediction_error.v) = NRows(pca_X)
       /\ \A i \in 1..NRows(pca_X) :
             /\ squared_prediction_error.v[i] = SquaredResidual(i)
             /\ n_components >= RankOfData
                   => squared_prediction_error.v[i] = R(0)

====
